---- MODULE Spec2Model ----
(***************************************************************************)
(* Model of the authenticated API client of the NIM-Tool frontend           *)
(* (frontend/src/services/api.js) together with the token handling of the   *)
(* application shell (frontend/src/App.js) and of the login page            *)
(* (frontend/src/pages/Login.js), of the live updates of the Alerts and     *)
(* Dashboard pages (frontend/src/pages/Alerts.js, Dashboard.js), and of the *)
(* error message apiRequest builds from a response body.                    *)
(*                                                                         *)
(* The browser runs one event loop.  Every action below is one run of the   *)
(* code between two suspension points (an `await` on fetch, or on the       *)
(* promise of an async function).  The backend is an environment: it        *)
(* answers every fetch with any status, or the fetch rejects.               *)
(* localStorage is assumed not to throw (the try/catch blocks of            *)
(* tokenManager are not modelled).                                          *)
(***************************************************************************)
EXTENDS Integers, FiniteSets, Sequences, TLC

VARIABLES
    store,            \* localStorage: key -> value
    proc,             \* one record per call slot (0: the login form, 1..: page requests)
    now,              \* Math.floor(Date.now() / 1000)
    issued,           \* number of credential pairs the backend has issued
    isAuthenticated,  \* React state of useAuthState
    booting,          \* React state of useAuthState
    pathname,         \* window.location.pathname: "/" is the login page
    navigating,       \* the path window.location.replace asked for, "" when none is pending
    page,             \* the page component of the live updates: "Alerts" or "Dashboard"
    sseUrl,           \* ALERTS_SSE_URL is not empty
    runs,             \* runs of the live-update effect so far
    current,          \* the run whose cleanup has not run yet, 0 when there is none
    run,              \* per run of the effect: its closure and the objects it created
    esRef,            \* esRef.current: the run that created the EventSource, 0 for null
    pollRef,          \* pollRef.current: the run that created the interval, 0 for null
    lastUpdate,       \* the run whose fetch function a push event or a tick called last
    beat,             \* flips at every such call
    response,         \* a response of the backend that is not ok: status and parsed body
    thrown,           \* the message of the Error make throws for it
    expired,          \* what a call of tokenManager.isTokenExpired returned, "unset" before
    answers           \* answers of the refresh endpoint on their way to the browser

clientVars == <<store, proc, now, issued, isAuthenticated, booting, pathname, navigating>>
liveVars == <<page, sseUrl, runs, current, run, esRef, pollRef, lastUpdate, beat>>
msgVars == <<response, thrown, expired, answers>>
vars == <<clientVars, liveVars, msgVars>>

-----------------------------------------------------------------------------
(* Bounds of the model *)

NReq == 2            \* page requests that can be in progress at the same time
MaxIssue == 3        \* credential pairs the backend issues in one behaviour
MaxTicks == 1        \* clock steps in one behaviour
TickSeconds == 60    \* seconds per clock step
AccessLifetime == 150  \* seconds of validity the backend gives an access token
NBurst == 5          \* requests fired in parallel by a page load (SpecBurst)
MaxRuns == 3         \* runs of the live-update effect of one mounted page (SpecLive)

(* Program constants *)

SkewSeconds == 120   \* isTokenExpired: "treat as expired with < 2 minutes remaining"

-----------------------------------------------------------------------------
(* Values: everything that is stored, sent or received is a record of one shape *)

Val(k, s, e) == [kind |-> k, ser |-> s, exp |-> e]

Null == Val("null", 0, 0)              \* JS null: getItem of a missing key
JsUndefined == Val("undefined", 0, 0)  \* JS undefined: a field the response does not have
StrUndefined == Val("str", 0, 0)       \* the string "undefined" (not a decodable token)
AccessTok(s, e) == Val("jwt", s, e)    \* a well-formed JWT with payload.exp = e
RefreshTok(s) == Val("refresh", s, 0)
NoExpTok(s) == Val("jwtNoExp", s, 0)     \* a JWT whose payload decodes and has no exp
TimeStr(t) == Val("time", 0, t)        \* Date.now().toString()

\* JS truthiness of the values above: null and undefined are falsy, strings are truthy
Truthy(v) == v.kind \notin {"null", "undefined"}

\* localStorage.setItem(k, v) stores String(v)
ToStr(v) == IF v.kind \in {"undefined"} THEN StrUndefined
            ELSE IF v.kind = "null" THEN Val("str", 1, 0)
            ELSE v

\* a || b
Or(a, b) == IF Truthy(a) THEN a ELSE b

\* a ?? b
Coalesce(a, b) == IF a.kind \in {"null", "undefined"} THEN b ELSE a

-----------------------------------------------------------------------------
(* localStorage keys *)

ACCESS_KEY == "accessToken"
REFRESH_KEY == "refreshToken"
TIMESTAMP_KEY == "tokenTimestamp"
ACCESS_ALIASES == <<"accessToken", "access", "nim_access">>
REFRESH_ALIASES == <<"refreshToken", "refresh", "nim_refresh">>

Range(s) == {s[i] : i \in DOMAIN s}

Keys == {TIMESTAMP_KEY} \cup Range(ACCESS_ALIASES) \cup Range(REFRESH_ALIASES)

EmptyStore == [k \in Keys |-> Null]

setItem(st, k, v) == [st EXCEPT ![k] = ToStr(v)]

removeItem(st, k) == [st EXCEPT ![k] = Null]

\* tokenManager.setTokens
setTokens(st, accessToken, refreshToken, t) ==
    setItem(setItem(setItem(st, ACCESS_KEY, accessToken), REFRESH_KEY, refreshToken),
            TIMESTAMP_KEY, TimeStr(t))

\* tokenManager.clearTokens
clearTokens(st) ==
    removeItem(removeItem(removeItem(st, ACCESS_KEY), REFRESH_KEY), TIMESTAMP_KEY)

getAccessToken(st) == st[ACCESS_KEY]

getRefreshToken(st) == st[REFRESH_KEY]

\* tokenManager.isLoggedIn
isLoggedIn(st) == Truthy(getAccessToken(st)) /\ Truthy(getRefreshToken(st))

\* tokenManager.isTokenExpired, on a token value
TokenExpired(token, t) ==
    IF ~Truthy(token) THEN TRUE
    ELSE IF token.kind = "jwtNoExp" THEN FALSE  \* undefined - now is NaN; NaN < 120 is false
    ELSE IF token.kind # "jwt" THEN TRUE        \* JSON.parse(atob(...)) throws
    ELSE token.exp - t < SkewSeconds

isTokenExpired(st, t) == TokenExpired(getAccessToken(st), t)

\* App.js readAny: the first truthy value among the keys, in order
RECURSIVE readAnyFrom(_, _, _)
readAnyFrom(st, keys, i) ==
    IF i > Len(keys) THEN Null
    ELSE IF Truthy(st[keys[i]]) THEN st[keys[i]]
    ELSE readAnyFrom(st, keys, i + 1)

readAny(st, keys) == readAnyFrom(st, keys, 1)

\* App.js normalizeToCanonical: the store it leaves
normalizeToCanonical(st) ==
    LET access == readAny(st, ACCESS_ALIASES)
        refresh == readAny(st, REFRESH_ALIASES)
        s1 == IF Truthy(access) THEN setItem(st, ACCESS_KEY, access) ELSE st
    IN  IF Truthy(refresh) THEN setItem(s1, REFRESH_KEY, refresh) ELSE s1

\* App.js useAuthState.logout: the store it leaves
RECURSIVE removeAll(_, _, _)
removeAll(st, keys, i) ==
    IF i > Len(keys) THEN st ELSE removeAll(removeItem(st, keys[i]), keys, i + 1)

appLogoutStore(st) == removeAll(st, ACCESS_ALIASES \o REFRESH_ALIASES, 1)

\* App.js useAuthState.login: the store it leaves
appLoginStore(st, tokens) ==
    LET access == tokens.access
        refresh == tokens.refresh
        s1 == IF Truthy(access) THEN setItem(st, ACCESS_KEY, access) ELSE st
    IN  IF Truthy(refresh) THEN setItem(s1, REFRESH_KEY, refresh) ELSE s1

-----------------------------------------------------------------------------
(* Calls *)

LoginOps == {"Login.handleSubmit", "ApiService.login"}
RequestOps == {"request", "ApiService.logout", "api.auth.logout"}

\* options.includeAuth !== false
IncludeAuth(op) == op \notin LoginOps

NoOutcome == [kind |-> "none", msg |-> "", status |-> 0]
Ok(status) == [kind |-> "ok", msg |-> "", status |-> status]
Err(msg, status) == [kind |-> "error", msg |-> msg, status |-> status]

NoData == [tokens |-> FALSE, access |-> JsUndefined, refresh |-> JsUndefined]

IdleProc ==
    [op |-> "none", pc |-> "idle", isRetry |-> FALSE,
     refreshToken |-> Null,      \* const refreshToken of refreshAccessToken
     newToken |-> Null,          \* what refreshAccessToken returned
     data |-> NoData,            \* the parsed body of a 2xx login response
     outcome |-> NoOutcome,      \* how the promise of apiRequest settled
     attempts |-> 0,             \* fetches of the call's own endpoint
     refreshes |-> 0,            \* fetches of /auth/token/refresh/ made for the call
     refreshResult |-> "none",   \* what the call saw of its refresh
     peerRefresh |-> "none",     \* how a refresh ended that was in flight together with the call's
     staleSent |-> FALSE]        \* the fetch in flight bears a token isTokenExpired rejects

Slots == DOMAIN proc
LoginSlot == 0
RequestSlots == Slots \ {LoginSlot}

Statuses == {200, 204, 401, 403, 404, 500}
RefreshStatuses == {200, 401, 403, 500}

IsOk(status) == status >= 200 /\ status < 300

-----------------------------------------------------------------------------
(* The backend's bodies *)

\* the pair the backend issues next
NextAccess == AccessTok(issued + 1, now + AccessLifetime)
NextRefresh == RefreshTok(issued + 1)

\* 2xx bodies of POST /auth/login/: { access, refresh }, or nested under `tokens`,
\* with either field possibly missing
LoginBodies ==
    [tokens : BOOLEAN, access : {NextAccess, JsUndefined}, refresh : {NextRefresh, JsUndefined}]

\* 2xx bodies of POST /auth/token/refresh/: { access, refresh? }
RefreshBodies ==
    [access : {NextAccess, JsUndefined}, refresh : {NextRefresh, JsUndefined}]

NoRefreshBody == [access |-> JsUndefined, refresh |-> JsUndefined]

\* the backend issues a pair when it answers a login with 200
Issues(op, status) == status = 200 /\ op \in LoginOps

\* a body announced as application/json whose text is not JSON: res.json() rejects
Unparsable == [tokens |-> FALSE, access |-> Val("garbage", 0, 0),
               refresh |-> Val("garbage", 0, 0)]

\* a 2xx answer of the refresh endpoint whose text is not JSON (empty, or the page
\* of a proxy): `await res.json()` of refreshAccessToken rejects
UnparsableRefresh == [access |-> Val("garbage", 0, 0), refresh |-> Val("garbage", 0, 0)]

\* the bodies the backend can send with a status
BodiesFor(op, status) ==
    (IF Issues(op, status) THEN LoginBodies ELSE {NoData}) \cup {Unparsable}
RefreshBodiesFor(status) ==
    IF IsOk(status) THEN RefreshBodies \cup {UnparsableRefresh} ELSE {NoRefreshBody}

\* res.access, res.refresh, res.tokens?.access, res.tokens?.refresh of a login body
resAccess(d) == IF d.tokens THEN JsUndefined ELSE d.access
resRefresh(d) == IF d.tokens THEN JsUndefined ELSE d.refresh
resTokensAccess(d) == IF d.tokens THEN d.access ELSE JsUndefined
resTokensRefresh(d) == IF d.tokens THEN d.refresh ELSE JsUndefined

-----------------------------------------------------------------------------
(* apiRequest.make *)

\* a make that goes on to the fetch without looking for a token
NeedsLoginUnchecked(op, st) == FALSE

\* make, lines 144-147: the attempt needs a token and none is stored
NeedsLogin(op, st) == IncludeAuth(op) /\ ~Truthy(getAccessToken(st))

\* make(retry) from its entry to its first await (the fetch), or to its throw
Enter(p, st, t, retry) ==
    IF NeedsLogin(p.op, st)
    THEN [p EXCEPT !.pc = "settled", !.outcome = Err("NoToken", 0)]
    ELSE [p EXCEPT !.pc = "sent", !.isRetry = retry, !.attempts = @ + 1,
                   !.staleSent = IncludeAuth(p.op) /\ TokenExpired(getAccessToken(st), t)]

\* a make that refreshes on a 401 whether or not the call sends a token
ShouldRefreshWithoutAuth(p, status) == status = 401 /\ ~p.isRetry

\* a make that refreshes on every 401, retry or not
ShouldRefreshOnRetryToo(p, status) == status = 401 /\ IncludeAuth(p.op)

\* make, line 158: the response sends the call to refreshAccessToken
ShouldRefresh(p, status) == status = 401 /\ ~p.isRetry /\ IncludeAuth(p.op)

\* a make without the 403 branch
ClassifyNoForbidden(status) ==
    IF status = 204 THEN Ok(204)
    ELSE IF ~IsOk(status) THEN Err("Http", status)
    ELSE Ok(status)

\* make, lines 164-188: how a response that is not refreshed settles the call
Classify(status) ==
    IF status = 403 THEN Err("Forbidden", 403)
    ELSE IF status = 204 THEN Ok(204)
    ELSE IF ~IsOk(status) THEN Err("Http", status)
    ELSE Ok(status)

\* make, lines 170-172: the body is read only after the 401, 403 and 204 branches
BodyIsRead(status) == status \notin {403, 204}

\* make, lines 170-172 and 189-194: a rejected res.json() is a SyntaxError, which the
\* catch rethrows as it is
SettleOutcome(status, body) ==
    IF BodyIsRead(status) /\ body = Unparsable THEN Err("SyntaxError", status)
    ELSE Classify(status)

\* the data make has in hand when it settles
SettleData(status, body) ==
    IF BodyIsRead(status) /\ body # Unparsable THEN body ELSE NoData

\* make, lines 189-194: what the catch throws for a TypeError of fetch
NetFailOutcome(mentionsFetch) ==
    IF mentionsFetch THEN Err("Network", 0) ELSE Err("TypeError", 0)

\* a make that tries once more when the fetch of its first attempt rejects
AfterNetFailRetries(p, st, t, mentionsFetch) ==
    IF ~p.isRetry THEN Enter(p, st, t, TRUE)
    ELSE [p EXCEPT !.pc = "settled", !.staleSent = FALSE,
                   !.outcome = NetFailOutcome(mentionsFetch)]

\* make, lines 156 and 189-194: the call after its fetch rejected
AfterNetFail(p, st, t, mentionsFetch) ==
    [p EXCEPT !.pc = "settled", !.staleSent = FALSE,
              !.outcome = NetFailOutcome(mentionsFetch)]

\* refreshAccessToken, lines 96-108: from its entry to its fetch
RefreshStartProc(p, st) ==
    IF ~Truthy(getRefreshToken(st))
    THEN [p EXCEPT !.pc = "refreshed", !.newToken = Null, !.staleSent = FALSE,
                   !.refreshResult = "noRefreshToken"]
    ELSE [p EXCEPT !.pc = "refreshing", !.refreshToken = getRefreshToken(st),
                   !.staleSent = FALSE, !.refreshes = @ + 1]

RefreshStartStore(st) ==
    IF ~Truthy(getRefreshToken(st)) THEN clearTokens(st) ELSE st

\* a refreshAccessToken that leaves the store alone when the refresh is rejected
RefreshStoreKeepsRejected(st, p, status, body, t) ==
    IF IsOk(status) /\ body = UnparsableRefresh THEN clearTokens(st)
    ELSE IF IsOk(status) /\ Truthy(body.access)
    THEN setTokens(st, body.access, Or(body.refresh, p.refreshToken), t)
    ELSE st

\* a refreshAccessToken that stores data.refresh as it is, rotated or missing
RefreshStoreDropsUnrotated(st, p, status, body, t) ==
    IF ~IsOk(status)
    THEN IF status = 401 \/ status = 403 THEN clearTokens(st) ELSE st
    ELSE IF body = UnparsableRefresh THEN clearTokens(st)  \* res.json() rejects: the catch
    ELSE IF Truthy(body.access)
         THEN setTokens(st, body.access, body.refresh, t)
         ELSE st

\* refreshAccessToken, lines 110-125: the store after the response
RefreshStore(st, p, status, body, t) ==
    IF ~IsOk(status)
    THEN IF status = 401 \/ status = 403 THEN clearTokens(st) ELSE st
    ELSE IF body = UnparsableRefresh THEN clearTokens(st)  \* res.json() rejects: the catch
    ELSE IF Truthy(body.access)
         THEN setTokens(st, body.access, Or(body.refresh, p.refreshToken), t)
         ELSE st

\* refreshAccessToken, lines 110-125: what it returns
RefreshReturn(status, body) ==
    IF IsOk(status) /\ body # UnparsableRefresh /\ Truthy(body.access) THEN body.access
    ELSE Null

RefreshSeen(status, body) ==
    IF ~IsOk(status) THEN (IF status = 401 \/ status = 403 THEN "rejected" ELSE "failed")
    ELSE IF body = UnparsableRefresh THEN "threw"
    ELSE IF Truthy(body.access) THEN "ok" ELSE "noAccess"

\* refreshAccessToken, lines 121-125: the store after the fetch rejected
RefreshCatchStore(st) == clearTokens(st)

\* a make that retries whatever refreshAccessToken returned
AfterRefreshAlwaysRetries(p, st, t) ==
    Enter([p EXCEPT !.newToken = Null, !.peerRefresh = "none"], st, t, TRUE)

\* make, lines 159-161: the call after refreshAccessToken returned
AfterRefresh(p, st, t) ==
    IF Truthy(p.newToken)
    THEN Enter([p EXCEPT !.newToken = Null, !.peerRefresh = "none"], st, t, TRUE)
    ELSE [p EXCEPT !.pc = "settled", !.peerRefresh = "none",
                   !.outcome = Err("SessionExpired", 401)]

\* observation: every call whose refresh is in flight notes how the refresh of r ended
RefreshClass(seen) == IF seen = "ok" THEN "ok" ELSE "failed"

NotePeers(pr, r, seen) ==
    [q \in DOMAIN pr |->
        IF q # r /\ pr[q].pc = "refreshing"
        THEN [pr[q] EXCEPT !.peerRefresh = RefreshClass(seen)] ELSE pr[q]]

-----------------------------------------------------------------------------
(* What the caller of apiRequest does when its promise settles *)

\* ApiService.login, lines 211-224
apiServiceLoginStore(st, d, t) ==
    LET accessToken == IF d.tokens THEN d.access ELSE IF Truthy(d.access) THEN d.access ELSE JsUndefined
        refreshToken == IF d.tokens THEN d.refresh ELSE IF Truthy(d.access) THEN d.refresh ELSE JsUndefined
    IN  IF Truthy(accessToken) /\ Truthy(refreshToken)
        THEN setTokens(st, accessToken, refreshToken, t) ELSE st

\* api.auth.login, lines 273-277
authLoginStore(st, d, t) ==
    IF d.tokens THEN setTokens(st, resTokensAccess(d), resTokensRefresh(d), t)
    ELSE IF Truthy(resAccess(d)) THEN setTokens(st, resAccess(d), resRefresh(d), t)
    ELSE st

\* Login.handleSubmit, lines 36-37
submitAccess(d) == Coalesce(Coalesce(resAccess(d), resTokensAccess(d)), Null)
submitRefresh(d) == Coalesce(Coalesce(resRefresh(d), resTokensRefresh(d)), Null)

\* Login.handleSubmit, line 39: it goes on to persist and to notify the app
submitAccepted(d) == Truthy(submitAccess(d)) /\ Truthy(submitRefresh(d))

\* Login.handleSubmit, lines 30-45, with api.auth.login and App's login inside
handleSubmitStore(st, d, t) ==
    LET s1 == authLoginStore(st, d, t)
    IN  IF submitAccepted(d)
        THEN appLoginStore(setTokens(s1, submitAccess(d), submitRefresh(d), t),
                           [access |-> submitAccess(d), refresh |-> submitRefresh(d)])
        ELSE s1

\* ApiService.logout, lines 232-234: finally
apiServiceLogoutStore(st) == clearTokens(st)

\* the store after the caller's continuation ran
\* a caller that drops the session whenever its call failed with 401
CompleteStoreClearsOnUnauthorized(p, st, t) ==
    IF p.op = "ApiService.logout" THEN apiServiceLogoutStore(st)
    ELSE IF p.op = "ApiService.login" /\ p.outcome.kind = "ok"
         THEN apiServiceLoginStore(st, p.data, t)
    ELSE IF p.op = "Login.handleSubmit" /\ p.outcome.kind = "ok"
         THEN handleSubmitStore(st, p.data, t)
    ELSE IF p.outcome.kind = "error" /\ p.outcome.status = 401 THEN clearTokens(st)
    ELSE st

CompleteStore(p, st, t) ==
    IF p.op = "ApiService.logout" THEN apiServiceLogoutStore(st)
    ELSE IF p.op = "ApiService.login" /\ p.outcome.kind = "ok"
         THEN apiServiceLoginStore(st, p.data, t)
    ELSE IF p.op = "Login.handleSubmit" /\ p.outcome.kind = "ok"
         THEN handleSubmitStore(st, p.data, t)
    ELSE st

\* the continuation reached App's login (onLogin)
ReachesAppLogin(p) ==
    p.op = "Login.handleSubmit" /\ p.outcome.kind = "ok" /\ submitAccepted(p.data)

-----------------------------------------------------------------------------
(* Actions *)

\* the document has loaded and nothing has run yet
ClientInit ==
    /\ store = EmptyStore
    /\ proc = [r \in 0..NReq |-> IdleProc]
    /\ now = 0
    /\ issued = 0
    /\ isAuthenticated = FALSE
    /\ booting = TRUE
    /\ pathname = "/"
    /\ navigating = ""

\* no page with live updates is mounted
NoRun == [phase |-> "unused", aborted |-> FALSE, es |-> "none", timer |-> "none"]

LiveIdle ==
    /\ runs = 0
    /\ current = 0
    /\ run = [k \in 1..MaxRuns |-> NoRun]
    /\ esRef = 0
    /\ pollRef = 0
    /\ lastUpdate = 0
    /\ beat = FALSE

\* no error response is being turned into a message
NoMessage == <<"(none)">>
NoResponse == [status |-> 0, body |-> "(none)"]

MsgIdle ==
    /\ response = NoResponse
    /\ thrown = NoMessage
    /\ expired = "unset"
    /\ answers = {}

Init ==
    /\ ClientInit
    /\ page = "Alerts" /\ sseUrl = FALSE /\ LiveIdle
    /\ MsgIdle

\* App.js useAuthState, the effect that runs when the document has loaded
Boot ==
    /\ booting
    /\ store' = normalizeToCanonical(store)
    /\ isAuthenticated' = Truthy(readAny(store, ACCESS_ALIASES))
    /\ booting' = FALSE
    /\ UNCHANGED <<proc, now, issued, pathname, navigating, liveVars, msgVars>>

\* a page or the login form calls apiRequest: make() runs up to its fetch
Call(r, op) ==
    /\ ~booting
    /\ IF r = LoginSlot
       THEN op \in LoginOps /\ pathname = "/" /\ proc[r].pc \in {"idle", "done"}
       ELSE op \in RequestOps /\ pathname # "/" /\ isAuthenticated /\ proc[r].pc = "idle"
    /\ proc' = [proc EXCEPT ![r] = Enter([IdleProc EXCEPT !.op = op], store, now, FALSE)]
    /\ UNCHANGED <<store, now, issued, isAuthenticated, booting, pathname, navigating, liveVars, msgVars>>

\* the fetch of make resolves with a response
Respond(r, status, body) ==
    LET p == proc[r] IN
    /\ p.pc = "sent"
    /\ IF ShouldRefresh(p, status)
       THEN /\ proc' = [proc EXCEPT ![r] = RefreshStartProc(p, store)]
            /\ store' = RefreshStartStore(store)
            /\ UNCHANGED issued
       ELSE /\ proc' = [proc EXCEPT ![r] =
                          [p EXCEPT !.pc = "settled",
                                    !.outcome = SettleOutcome(status, body),
                                    !.staleSent = FALSE,
                                    !.data = SettleData(status, body)]]
            /\ issued' = IF Issues(p.op, status) THEN issued + 1 ELSE issued
            /\ UNCHANGED store
    /\ UNCHANGED <<now, isAuthenticated, booting, pathname, navigating, liveVars, msgVars>>

\* the fetch of make rejects with a TypeError: the server was not reached. Whether
\* the TypeError's message contains 'fetch' depends on the browser.
NetFail(r, mentionsFetch) ==
    /\ proc[r].pc = "sent"
    /\ proc' = [proc EXCEPT ![r] = AfterNetFail(proc[r], store, now, mentionsFetch)]
    /\ UNCHANGED <<store, now, issued, isAuthenticated, booting, pathname, navigating, liveVars, msgVars>>

\* the fetch of refreshAccessToken resolves with a response
RefreshRespond(r, status, body) ==
    LET p == proc[r] IN
    /\ p.pc = "refreshing"
    /\ store' = RefreshStore(store, p, status, body, now)
    /\ proc' = [NotePeers(proc, r, RefreshSeen(status, body)) EXCEPT ![r] =
                  [p EXCEPT !.pc = "refreshed", !.newToken = RefreshReturn(status, body),
                            !.refreshToken = Null,
                            !.refreshResult = RefreshSeen(status, body)]]
    /\ issued' = IF IsOk(status) THEN issued + 1 ELSE issued
    /\ UNCHANGED <<now, isAuthenticated, booting, pathname, navigating, liveVars, msgVars>>

\* the fetch of refreshAccessToken rejects: the server was not reached
RefreshNetFail(r) ==
    /\ proc[r].pc = "refreshing"
    /\ store' = RefreshCatchStore(store)
    /\ proc' = [NotePeers(proc, r, "netfail") EXCEPT ![r] =
                  [@ EXCEPT !.pc = "refreshed", !.newToken = Null, !.refreshToken = Null,
                            !.refreshResult = "netfail"]]
    /\ UNCHANGED <<now, issued, isAuthenticated, booting, pathname, navigating, liveVars, msgVars>>

\* make resumes after `await refreshAccessToken()`
Resume(r) ==
    /\ proc[r].pc = "refreshed"
    /\ proc' = [proc EXCEPT ![r] = AfterRefresh(proc[r], store, now)]
    /\ UNCHANGED <<store, now, issued, isAuthenticated, booting, pathname, navigating, liveVars, msgVars>>

\* the caller resumes after `await apiRequest(...)`
Complete(r) ==
    LET p == proc[r] IN
    /\ p.pc = "settled"
    /\ store' = CompleteStore(p, store, now)
    /\ proc' = [proc EXCEPT ![r] = [p EXCEPT !.pc = "done", !.data = NoData]]
    /\ isAuthenticated' = IF ReachesAppLogin(p) THEN Truthy(submitAccess(p.data))
                          ELSE isAuthenticated
    /\ navigating' = IF ReachesAppLogin(p) THEN "/dashboard" ELSE navigating
    /\ UNCHANGED <<now, issued, booting, pathname, liveVars, msgVars>>

\* App.js useAuthState.logout (the sidebar's button)
AppLogout ==
    /\ ~booting
    /\ isAuthenticated /\ pathname # "/"       \* showSidebar
    /\ store' = appLogoutStore(store)
    /\ isAuthenticated' = FALSE
    /\ navigating' = "/"
    /\ UNCHANGED <<proc, now, issued, booting, pathname, liveVars, msgVars>>

\* the document that window.location.replace asked for replaces the page:
\* every call of the old page is gone
LoadPage ==
    /\ navigating # ""
    /\ proc' = [r \in Slots |-> IdleProc]
    /\ booting' = TRUE
    /\ isAuthenticated' = FALSE
    /\ pathname' = navigating
    /\ navigating' = ""
    /\ UNCHANGED <<store, now, issued, liveVars, msgVars>>

\* time passes
Tick ==
    /\ now' = now + TickSeconds
    /\ UNCHANGED <<store, proc, issued, isAuthenticated, booting, pathname, navigating, liveVars, msgVars>>

Next ==
    \/ Boot
    \/ \E r \in Slots, op \in LoginOps \cup RequestOps : Call(r, op)
    \/ \E r \in Slots, status \in Statuses : \E body \in BodiesFor(proc[r].op, status) :
          /\ Issues(proc[r].op, status) => issued < MaxIssue
          /\ Respond(r, status, body)
    \/ \E r \in Slots, mentionsFetch \in BOOLEAN : NetFail(r, mentionsFetch)
    \/ \E r \in Slots, status \in RefreshStatuses : \E body \in RefreshBodiesFor(status) :
          /\ IsOk(status) => issued < MaxIssue
          /\ RefreshRespond(r, status, body)
    \/ \E r \in Slots : RefreshNetFail(r)
    \/ \E r \in Slots : Resume(r)
    \/ \E r \in Slots : Complete(r)
    \/ AppLogout
    \/ LoadPage
    \/ now < MaxTicks * TickSeconds /\ Tick

Spec == Init /\ [][Next]_vars

-----------------------------------------------------------------------------
(* A page load that fires NBurst requests in parallel while the stored access *)
(* token has expired: the backend answers 401 to every first attempt, accepts *)
(* the refresh token, and answers 200 to every retry.                         *)

BurstStore == setTokens(EmptyStore, AccessTok(1, AccessLifetime), RefreshTok(1), 0)

InitBurst ==
    /\ page = "Alerts" /\ sseUrl = FALSE /\ LiveIdle
    /\ MsgIdle
    /\ store = BurstStore
    /\ now = AccessLifetime
    /\ issued = 1
    /\ isAuthenticated = TRUE
    /\ booting = FALSE
    /\ pathname = "/dashboard"
    /\ navigating = ""
    /\ proc = [r \in 0..NBurst |->
                 IF r = LoginSlot THEN IdleProc
                 ELSE Enter([IdleProc EXCEPT !.op = "request"], BurstStore, AccessLifetime, FALSE)]

NextBurst ==
    \/ \E r \in Slots : Respond(r, IF proc[r].isRetry THEN 200 ELSE 401, NoData)
    \/ \E r \in Slots : RefreshRespond(r, 200, [access |-> NextAccess, refresh |-> JsUndefined])
    \/ \E r \in Slots : Resume(r)
    \/ \E r \in Slots : Complete(r)

SpecBurst == InitBurst /\ [][NextBurst]_vars

-----------------------------------------------------------------------------
(* Claims *)

InFlightRefreshes == {r \in Slots : proc[r].pc = "refreshing"}

Settled(p) == p.pc \in {"settled", "done"}

\* the error kinds of the specification, read off how the call failed
Unauthenticated(o) ==
    o.kind = "error" /\ (o.msg \in {"NoToken", "SessionExpired"} \/ o.status = 401)

\* a value is a token, not a missing key nor the text of a missing field
IsToken(v) == v.kind \in {"jwt", "refresh"}

RECURSIVE SumRefreshes(_)
SumRefreshes(S) ==
    IF S = {} THEN 0
    ELSE LET r == CHOOSE x \in S : TRUE IN proc[r].refreshes + SumRefreshes(S \ {r})

\* C1: at most one refresh call to /auth/token/refresh/ is in flight at any time.
C1_AtMostOneRefreshInFlight == Cardinality(InFlightRefreshes) <= 1

\* C2: NBurst >= 5 parallel requests with an expired access token end with exactly
\* one refresh call in total and with every request succeeding on its retry.
C2_BurstOneRefresh ==
    (\A r \in RequestSlots : proc[r].pc = "done")
        => /\ SumRefreshes(RequestSlots) = 1
           /\ \A r \in RequestSlots : proc[r].outcome.kind = "ok" /\ proc[r].attempts = 2

\* C3: no call makes more than two fetches of its own endpoint nor more than one
\* refresh; a call whose refresh succeeded and whose retry was answered 401 fails
\* as unauthenticated after exactly one retry.
C3_BoundedRetry ==
    \A r \in Slots :
        LET p == proc[r] IN
        /\ p.attempts <= 2
        /\ p.refreshes <= 1
        /\ (Settled(p) /\ p.refreshResult = "ok" /\ p.outcome.status = 401)
              => (Unauthenticated(p.outcome) /\ p.attempts = 2 /\ p.refreshes = 1)

C3_Witness ==
    \E r \in Slots :
        LET p == proc[r] IN
        p.pc = "done" /\ p.refreshResult = "ok" /\ p.outcome.status = 401 /\ p.attempts = 2

\* C4: when the refresh call is answered 401 or 403, both tokens leave the store in
\* that step, and the call that waited on the refresh settles as session expired
\* without another fetch of its endpoint.
C4_RefreshRejectedClears ==
    /\ [](\A r \in Slots :
            LET p == proc[r] IN
            p.refreshResult = "rejected"
               => /\ p.attempts = 1
                  /\ p.pc \in {"refreshed", "settled", "done"}
                  /\ Settled(p) => p.outcome = Err("SessionExpired", 401))
    /\ [][\A r \in Slots :
            (proc[r].pc = "refreshing" /\ proc'[r].refreshResult = "rejected")
               => (~Truthy(getAccessToken(store')) /\ ~Truthy(getRefreshToken(store')))]_vars

C4_Witness ==
    \E r \in Slots :
        /\ proc[r].pc = "done" /\ proc[r].refreshResult = "rejected"
        /\ proc[r].outcome.msg = "SessionExpired"
        /\ ~Truthy(getAccessToken(store)) /\ ~Truthy(getRefreshToken(store))

\* C5: a refresh whose fetch rejects (the server is not reached) leaves the stored
\* tokens as they were.
C5_RefreshNetFailKeepsTokens ==
    [][\A r \in Slots :
          (proc[r].pc = "refreshing" /\ proc'[r].refreshResult = "netfail")
             => (getAccessToken(store') = getAccessToken(store)
                 /\ getRefreshToken(store') = getRefreshToken(store))]_vars

\* C6: calls whose refreshes were outstanding at the same time see the same refresh
\* outcome: never one success and one failure.
C6_SameRefreshOutcome ==
    \A r \in Slots :
        LET p == proc[r] IN
        (p.pc = "refreshed" /\ p.peerRefresh # "none")
            => RefreshClass(p.refreshResult) = p.peerRefresh

\* an attempt of call r starts in this step: the first one, or the retry
AttemptStarts(r) ==
    /\ proc'[r].pc \in {"sent", "settled"}
    /\ \/ proc[r].pc \in {"idle", "done"}
       \/ proc[r].pc = "refreshed" /\ Truthy(proc[r].newToken)

\* C7: an attempt that requires authentication and starts while no access token is
\* stored fails at once as unauthenticated, with no fetch of the endpoint, no refresh
\* and no change of the store; on the first attempt and on the retry alike.
C7_NoTokenFastPath ==
    [][\A r \in Slots :
          (AttemptStarts(r) /\ IncludeAuth(proc'[r].op) /\ ~Truthy(getAccessToken(store)))
             => /\ proc'[r].pc = "settled"
                /\ proc'[r].outcome = Err("NoToken", 0)
                /\ Unauthenticated(proc'[r].outcome)
                /\ proc'[r].attempts = (IF proc[r].pc = "refreshed" THEN 1 ELSE 0)
                /\ proc'[r].refreshes = (IF proc[r].pc = "refreshed" THEN 1 ELSE 0)
                /\ InFlightRefreshes' = InFlightRefreshes
                /\ store' = store]_vars

C7_Witness ==
    \E r \in Slots :
        /\ proc[r].outcome = Err("NoToken", 0)
        /\ proc[r].refreshResult = "ok"
        /\ proc[r].attempts = 1

C7_WitnessFirst ==
    \E r \in Slots :
        /\ proc[r].outcome = Err("NoToken", 0)
        /\ proc[r].refreshResult = "none"
        /\ proc[r].attempts = 0

\* C8: no fetch that requires authentication leaves bearing an access token that
\* isTokenExpired rejects at the moment of sending.
C8_NoExpiredTokenSent ==
    \A r \in Slots : proc[r].pc = "sent" => ~proc[r].staleSent

\* C9: the store holds an access token and a refresh token, or neither.
C9_PairAtomic == IsToken(getAccessToken(store)) <=> IsToken(getRefreshToken(store))

StoreCleared(st) ==
    /\ st[ACCESS_KEY] = Null /\ st[REFRESH_KEY] = Null /\ st[TIMESTAMP_KEY] = Null

\* C10: when a logout completes (ApiService.logout, api.auth.logout, the app's logout),
\* the store holds no access token, no refresh token and no timestamp.
C10_LogoutClears ==
    [][(\/ AppLogout
        \/ \E r \in Slots : /\ proc[r].op \in {"ApiService.logout", "api.auth.logout"}
                           /\ proc[r].pc = "settled" /\ proc'[r].pc = "done")
          => StoreCleared(store')]_vars

\* the outcomes make produces on purpose: a returned value, or a thrown Error whose
\* message make (or its catch) wrote
ClassifiedMsgs == {"NoToken", "SessionExpired", "Forbidden", "Network", "Http"}

Classified(o) == o.kind = "ok" \/ (o.kind = "error" /\ o.msg \in ClassifiedMsgs)

\* C11: every call that has resolved did so with an outcome of the taxonomy; none
\* surfaces an unclassified error, such as a body-parse failure, to its caller
C11_OutcomeClassified ==
    \A r \in Slots : Settled(proc[r]) => Classified(proc[r].outcome)

\* a login body that carries an access and a refresh token
BodyHasPair(d) == IsToken(d.access) /\ IsToken(d.refresh)

\* the continuation of a login call that returned a body runs in this step
LoginCompletes(r) ==
    /\ proc[r].op \in LoginOps
    /\ proc[r].pc = "settled" /\ proc'[r].pc = "done"
    /\ proc[r].outcome.kind = "ok"

\* C17: after a login whose response carries both tokens (at top level or under
\* `tokens`) the store holds exactly that pair; a login whose response lacks either
\* token stores no pair
C17_LoginStoresPair ==
    [][\A r \in Slots : LoginCompletes(r) =>
          LET d == proc[r].data IN
          IF BodyHasPair(d)
          THEN /\ getAccessToken(store') = d.access
               /\ getRefreshToken(store') = d.refresh
          ELSE /\ getAccessToken(store') = getAccessToken(store)
               /\ getRefreshToken(store') = getRefreshToken(store)]_vars

\* C18: a successful refresh (its response carries a new access token) overwrites
\* the store with the new access token and with the response's refresh token if the
\* server rotated it, otherwise with the refresh token read when the refresh began;
\* the refresh token is never lost
C18_RefreshKeepsRefreshToken ==
    [][\A r \in Slots : \A status \in {x \in RefreshStatuses : IsOk(x)} : \A body \in RefreshBodies :
          (RefreshRespond(r, status, body) /\ Truthy(body.access)) =>
              /\ getAccessToken(store') = body.access
              /\ getRefreshToken(store') =
                     (IF Truthy(body.refresh) THEN body.refresh ELSE proc[r].refreshToken)
              /\ Truthy(getRefreshToken(store'))]_vars

\* a refresh succeeded without rotation: the store holds the new access token and
\* the older refresh token
C18_Witness ==
    \E r \in Slots :
        /\ proc[r].pc = "refreshed" /\ proc[r].refreshResult = "ok"
        /\ getAccessToken(store) = proc[r].newToken
        /\ getRefreshToken(store).kind = "refresh"
        /\ getRefreshToken(store).ser < getAccessToken(store).ser

\* the fetch of the retry of call r is issued in this step
RetryDispatched(r) ==
    /\ proc'[r].pc = "sent" /\ proc'[r].isRetry
    /\ proc'[r].attempts = proc[r].attempts + 1

\* C19: the retry of a call is dispatched only after the refresh it waited for has
\* completed (response received, store updated) and only when that refresh
\* succeeded; no retry is in flight while that refresh is outstanding
C19_RetryAfterRefresh ==
    /\ [](\A r \in Slots :
            LET p == proc[r] IN
            /\ p.pc = "refreshing" => (~p.isRetry /\ p.attempts = 1)
            /\ (p.pc = "sent" /\ p.isRetry) => (p.refreshResult = "ok" /\ p.refreshes = 1))
    /\ [][\A r \in Slots : RetryDispatched(r) =>
             /\ proc[r].pc = "refreshed"
             /\ proc[r].refreshResult = "ok"
             /\ Truthy(proc[r].newToken)]_vars

\* a retry is in flight after its refresh succeeded
C19_Witness ==
    \E r \in Slots :
        proc[r].pc = "sent" /\ proc[r].isRetry /\ proc[r].refreshResult = "ok"

\* the error a caller receives when the fetch of make rejected: the rewritten
\* 'Network error' or the TypeError of fetch itself
TransportFailures == {NetFailOutcome(b) : b \in BOOLEAN}

\* C20: a rejected fetch of a request is returned to the caller directly as a network
\* error; it causes no refresh call and no second attempt, so a request whose first
\* fetch rejects makes exactly one HTTP attempt
C20_NetFailNoRetry ==
    /\ [][\A r \in Slots : \A b \in BOOLEAN : NetFail(r, b) =>
             /\ proc'[r].pc = "settled"
             /\ proc'[r].outcome \in TransportFailures
             /\ proc'[r].attempts = proc[r].attempts
             /\ proc'[r].refreshes = proc[r].refreshes
             /\ store' = store]_vars
    /\ [](\A r \in Slots :
            LET p == proc[r] IN
            (Settled(p) /\ p.outcome \in TransportFailures /\ ~p.isRetry)
                => (p.attempts = 1 /\ p.refreshes = 0))

\* a request ended with the network error after one fetch and no refresh
C20_Witness ==
    \E r \in RequestSlots :
        LET p == proc[r] IN
        /\ p.pc = "done" /\ p.outcome = Err("Network", 0)
        /\ p.attempts = 1 /\ p.refreshes = 0

-----------------------------------------------------------------------------
(* Live updates: the effect of Alerts.js (EventSource, with polling as its     *)
(* fallback) and the effect of Dashboard.js (polling only).  esRef and pollRef *)
(* belong to the component: every run of the effect shares them.  What a run   *)
(* owns is its closure (aborted, its fetch function) and the EventSource and   *)
(* interval it created.                                                        *)

Pages == {"Alerts", "Dashboard"}
Runs == 1..MaxRuns

\* the refs of the component and the objects of its runs
Refs == [run |-> run, esRef |-> esRef, pollRef |-> pollRef]

\* startPolling of run k
startPolling(s, k) ==
    IF s.pollRef = 0
    THEN [s EXCEPT !.run[k].timer = "running", !.pollRef = k]
    ELSE s

\* Alerts.js, startSSE of run k; throws: `new EventSource` throws
startSSE(s, k, throws) ==
    IF ~sseUrl THEN startPolling(s, k)
    ELSE IF throws THEN startPolling(s, k)
    ELSE [s EXCEPT !.run[k].es = "open", !.esRef = k]

\* an es.onerror that goes on to polling without closing the EventSource
onerrorKeepsOpen(s, k) == startPolling([s EXCEPT !.esRef = 0], k)

\* an es.onerror that starts polling and connects again
onerrorReconnects(s, k) ==
    [startPolling([s EXCEPT !.run[k].es = "closed", !.esRef = 0], k)
        EXCEPT !.run[k].es = "open", !.esRef = k]

\* Alerts.js, es.onerror of the EventSource of run k
onerror(s, k) == startPolling([s EXCEPT !.run[k].es = "closed", !.esRef = 0], k)

\* esRef.current.close() and clearInterval(pollRef.current), each under its `if`
closeRef(s) == IF s.esRef # 0 THEN [s EXCEPT !.run[s.esRef].es = "closed"] ELSE s
clearRef(s) == IF s.pollRef # 0 THEN [s EXCEPT !.run[s.pollRef].timer = "cleared"] ELSE s

\* the function the effect of run k returns
cleanup(s, k) ==
    IF page = "Alerts"
    THEN [clearRef(closeRef(s)) EXCEPT !.run[k].aborted = TRUE, !.esRef = 0, !.pollRef = 0]
    ELSE [clearRef(s) EXCEPT !.run[k].aborted = TRUE, !.pollRef = 0]

\* the body of the effect of run k up to `await fetchAlerts()`
startRun(s, k) == [s EXCEPT !.run[k] = [NoRun EXCEPT !.phase = "fetching"]]

SetRefs(s) ==
    /\ run' = s.run
    /\ esRef' = s.esRef
    /\ pollRef' = s.pollRef

\* a push event or a tick calls the fetch function of run k
Update(k) ==
    /\ lastUpdate' = k
    /\ beat' = ~beat

\* the page is mounted: first run of the effect
Mount ==
    /\ runs = 0
    /\ runs' = 1
    /\ current' = 1
    /\ SetRefs(startRun(Refs, 1))
    /\ UNCHANGED <<page, sseUrl, lastUpdate, beat, clientVars, msgVars>>

\* Alerts.js: severity or status changes; React runs the cleanup of the previous run
\* and then the effect again
ChangeFilter ==
    /\ page = "Alerts"
    /\ current # 0
    /\ runs < MaxRuns
    /\ runs' = runs + 1
    /\ current' = runs + 1
    /\ SetRefs(startRun(cleanup(Refs, current), runs + 1))
    /\ UNCHANGED <<page, sseUrl, lastUpdate, beat, clientVars, msgVars>>

\* the page is unmounted: React runs the cleanup of the last run
Unmount ==
    /\ current # 0
    /\ current' = 0
    /\ SetRefs(cleanup(Refs, current))
    /\ UNCHANGED <<page, sseUrl, runs, lastUpdate, beat, clientVars, msgVars>>

\* the initial fetch of run k has settled: the async function of the effect goes on
FetchDone(k, throws) ==
    /\ run[k].phase = "fetching"
    /\ LET s == [Refs EXCEPT !.run[k].phase = "started"]
       IN  SetRefs(IF page = "Alerts" THEN startSSE(s, k, throws) ELSE startPolling(s, k))
    /\ UNCHANGED <<page, sseUrl, runs, current, lastUpdate, beat, clientVars, msgVars>>

\* Alerts.js, es.onmessage of the EventSource of run k
PushMessage(k) ==
    /\ run[k].es = "open"
    /\ IF ~run[k].aborted THEN Update(k) ELSE UNCHANGED <<lastUpdate, beat>>
    /\ UNCHANGED <<page, sseUrl, runs, current, run, esRef, pollRef, clientVars, msgVars>>

\* the EventSource of run k fails or the server closes it: es.onerror
PushError(k) ==
    /\ run[k].es = "open"
    /\ SetRefs(onerror(Refs, k))
    /\ UNCHANGED <<page, sseUrl, runs, current, lastUpdate, beat, clientVars, msgVars>>

\* the interval of run k fires: Alerts.js calls fetchAlerts, Dashboard.js checks aborted
PollTick(k) ==
    /\ run[k].timer = "running"
    /\ IF page = "Alerts" \/ ~run[k].aborted THEN Update(k) ELSE UNCHANGED <<lastUpdate, beat>>
    /\ UNCHANGED <<page, sseUrl, runs, current, run, esRef, pollRef, clientVars, msgVars>>

InitLive ==
    /\ ClientInit
    /\ MsgIdle
    /\ page \in Pages
    /\ sseUrl \in (IF page = "Alerts" THEN BOOLEAN ELSE {FALSE})
    /\ LiveIdle

NextLive ==
    \/ Mount
    \/ ChangeFilter
    \/ Unmount
    \/ \E k \in Runs, throws \in BOOLEAN : FetchDone(k, throws)
    \/ \E k \in Runs : PushMessage(k)
    \/ \E k \in Runs : PushError(k)
    \/ \E k \in Runs : PollTick(k)

SpecLive == InitLive /\ [][NextLive]_vars

\* the transports run k owns: the EventSource and the interval it created
OwnsPush(k) == run[k].es = "open"
OwnsTimer(k) == run[k].timer = "running"

\* C12: a run of the Alerts live-update effect never owns an open EventSource together
\* with a running interval, and it owns at most one of each: the only interval that
\* can be running is the one pollRef holds
C12_OneTransportPerRun ==
    \A k \in Runs :
        /\ ~(OwnsPush(k) /\ OwnsTimer(k))
        /\ OwnsTimer(k) => pollRef = k

\* a run of the Alerts effect fell back: its EventSource is closed, its interval runs
C12_Witness ==
    \E k \in Runs :
        page = "Alerts" /\ k = current /\ run[k].es = "closed" /\ OwnsTimer(k)

\* the refs and objects after the cleanup of run k ran once, and once more
CleanedOnce(k) == cleanup(Refs, k)
CleanedTwice(k) == cleanup(CleanedOnce(k), k)

\* C13: running the cleanup of a subscription a second time changes nothing, and
\* after the cleanup the subscription has no open EventSource and no running interval
C13_CleanupIdempotent ==
    \A k \in Runs : k = current =>
        /\ CleanedTwice(k) = CleanedOnce(k)
        /\ CleanedOnce(k).run[k].es # "open"
        /\ CleanedOnce(k).run[k].timer # "running"

\* C14: only the most recent run of the effect whose cleanup has not run owns a
\* transport; once every run is cleaned up and no initial fetch is pending, no
\* EventSource is open and no interval is running
C14_NoTransportLeak ==
    \A k \in Runs :
        (OwnsPush(k) \/ OwnsTimer(k)) => (k = current /\ ~run[k].aborted)

\* C15: a subscription whose push transport could not be established, failed or was
\* closed is Polling: its EventSource is closed and an interval calls its own fetch
\* function, for as long as it is not unsubscribed
C15_FallbackPolls ==
    \A k \in Runs :
        (sseUrl /\ k = current /\ run[k].phase = "started" /\ ~OwnsPush(k))
            => (run[k].es \in {"none", "closed"} /\ OwnsTimer(k) /\ pollRef = k)

-----------------------------------------------------------------------------
(* The message of the Error make throws for a response that is not ok          *)
(* (api.js, lines 174-186).  A message is the sequence of its pieces; the      *)
(* empty string is the empty sequence.                                         *)

Absent == [t |-> "absent"]            \* the body has no such key
Str(x) == [t |-> "str", s |-> x]      \* a JSON string
List(xs) == [t |-> "list", items |-> xs]   \* a JSON array of strings

\* the keys of an error body, in the order the backend writes them
FieldOrder == <<"detail", "message", "non_field_errors", "email", "password">>

ErrStatuses == {400, 404, 500}

\* bodies with content-type application/json: an object of the shape the backend's
\* framework sends
JsonBodies ==
    [json : {TRUE},
     detail : {Absent, Str(""), Str("d")},
     message : {Absent, Str(""), Str("m")},
     non_field_errors : {Absent, List(<<>>), List(<<"n1">>), List(<<"n1", "n2">>)},
     email : {Absent, Str("e"), List(<<>>), List(<<"e1">>), List(<<"e1", "e2">>)},
     password : {Absent, List(<<"p1">>)}]

\* a body that is not JSON (res.text()), or JSON null
TextBody ==
    [json |-> FALSE, detail |-> Absent, message |-> Absent, non_field_errors |-> Absent,
     email |-> Absent, password |-> Absent]

ErrorBodies == JsonBodies \cup {TextBody}

\* JS truthiness of a field: an array is truthy even when empty, a string unless empty
IsTruthy(v) == v.t = "list" \/ (v.t = "str" /\ v.s # "")

\* new Error(s).message
Text(v) == IF v.s = "" THEN <<>> ELSE <<v.s>>

RECURSIVE Join(_, _)
\* items.join(sep)
Join(items, sep) ==
    IF items = <<>> THEN <<>>
    ELSE IF Len(items) = 1 THEN <<items[1]>>
    ELSE <<items[1], sep>> \o Join(Tail(items), sep)

RECURSIVE JoinAll(_, _)
\* the same for pieces that are messages themselves
JoinAll(msgs, sep) ==
    IF msgs = <<>> THEN <<>>
    ELSE IF Len(msgs) = 1 THEN msgs[1]
    ELSE msgs[1] \o <<sep>> \o JoinAll(Tail(msgs), sep)

\* `${f}: ${data[f].join(', ')}`
RenderField(b, f) == <<f, ": ">> \o Join(b[f].items, ", ")

\* Object.keys(data).filter((k) => Array.isArray(data[k]))
fieldErrors(b) == SelectSeq(FieldOrder, LAMBDA f : b[f].t = "list")

\* `HTTP ${res.status}: ${res.statusText}`
StatusLine(status) ==
    <<"HTTP ", CASE status = 400 -> "400: Bad Request"
                 [] status = 404 -> "404: Not Found"
                 [] OTHER -> "500: Internal Server Error">>

\* a make that looks at data.message before data.detail
ErrorMessageMessageFirst(status, b) ==
    IF b.json /\ IsTruthy(b.message) THEN Text(b.message)
    ELSE IF b.json /\ IsTruthy(b.detail) THEN Text(b.detail)
    ELSE IF b.json /\ IsTruthy(b.non_field_errors) THEN Join(b.non_field_errors.items, ", ")
    ELSE IF b.json /\ Len(fieldErrors(b)) > 0
         THEN JoinAll([i \in 1..Len(fieldErrors(b)) |-> RenderField(b, fieldErrors(b)[i])], "; ")
    ELSE StatusLine(status)

\* make, lines 174-186
ErrorMessage(status, b) ==
    IF b.json
    THEN IF IsTruthy(b.detail) THEN Text(b.detail)
         ELSE IF IsTruthy(b.message) THEN Text(b.message)
         ELSE IF IsTruthy(b.non_field_errors) THEN Join(b.non_field_errors.items, ", ")
         ELSE IF Len(fieldErrors(b)) > 0
              THEN JoinAll([i \in 1..Len(fieldErrors(b)) |->
                               RenderField(b, fieldErrors(b)[i])], "; ")
              ELSE StatusLine(status)
    ELSE StatusLine(status)

\* make reaches `if (!res.ok)` with the response and throws
Throw ==
    /\ thrown = NoMessage
    /\ thrown' = ErrorMessage(response.status, response.body)
    /\ UNCHANGED <<response, expired, answers, clientVars, liveVars>>

InitMsg ==
    /\ ClientInit
    /\ page = "Alerts" /\ sseUrl = FALSE /\ LiveIdle
    /\ response \in [status : ErrStatuses, body : ErrorBodies]
    /\ thrown = NoMessage
    /\ expired = "unset"
    /\ answers = {}

NextMsg == Throw

SpecMsg == InitMsg /\ [][NextMsg]_vars

\* the rules of the precedence, 1 to 5, and the message each gives
Rules == 1..5

RuleMessage(i, status, b) ==
    CASE i = 1 -> Text(b.detail)
      [] i = 2 -> Text(b.message)
      [] i = 3 -> Join(b.non_field_errors.items, ", ")
      [] i = 4 -> JoinAll([j \in 1..Len(fieldErrors(b)) |->
                              RenderField(b, fieldErrors(b)[j])], "; ")
      [] OTHER -> StatusLine(status)

\* rule i matches a structured body when its field is present
MatchesPresent(i, b) ==
    CASE i = 1 -> b.detail # Absent
      [] i = 2 -> b.message # Absent
      [] i = 3 -> b.non_field_errors # Absent
      [] i = 4 -> \E j \in 1..Len(FieldOrder) : b[FieldOrder[j]].t = "list"
      [] OTHER -> TRUE

\* rule i matches a structured body when its field is present and not empty
\* (a list counts even when it has no element)
MatchesNonEmpty(i, b) ==
    CASE i = 1 -> b.detail # Absent /\ b.detail # Str("")
      [] i = 2 -> b.message # Absent /\ b.message # Str("")
      [] i = 3 -> b.non_field_errors # Absent
      [] i = 4 -> \E j \in 1..Len(FieldOrder) : b[FieldOrder[j]].t = "list"
      [] OTHER -> TRUE

FirstPresent(b) == CHOOSE i \in Rules : MatchesPresent(i, b) /\ \A j \in 1..(i - 1) : ~MatchesPresent(j, b)
FirstNonEmpty(b) == CHOOSE i \in Rules : MatchesNonEmpty(i, b) /\ \A j \in 1..(i - 1) : ~MatchesNonEmpty(j, b)

-----------------------------------------------------------------------------
(* Claims about the paths of make *)

\* the response of call r sends it to refreshAccessToken in this step
RefreshPathEntered(r) ==
    /\ proc[r].pc = "sent"
    /\ proc'[r].pc \in {"refreshing", "refreshed"}

\* C21: a 401 sends a call to refresh-and-retry only on its first attempt and only
\* when the call requires authentication; a call made with includeAuth false (login)
\* that gets 401 makes no refresh and no second attempt, and the store is unchanged
C21_NoRefreshWithoutAuth ==
    /\ [][\A r \in Slots :
             /\ RefreshPathEntered(r) =>
                    (IncludeAuth(proc[r].op) /\ ~proc[r].isRetry /\ proc[r].attempts = 1)
             /\ \A body \in BodiesFor(proc[r].op, 401) :
                    (~IncludeAuth(proc[r].op) /\ Respond(r, 401, body)) =>
                        /\ proc'[r].pc = "settled"
                        /\ proc'[r].outcome.kind = "error"
                        /\ proc'[r].attempts = 1 /\ proc'[r].refreshes = 0
                        /\ store' = store
             /\ (~IncludeAuth(proc[r].op) /\ proc[r].pc = "settled"
                   /\ proc[r].outcome.status = 401 /\ proc'[r].pc = "done") =>
                        store' = store]_vars
    /\ [](\A r \in Slots :
            ~IncludeAuth(proc[r].op) =>
                (proc[r].refreshes = 0 /\ proc[r].attempts <= 1 /\ ~proc[r].isRetry))

\* a login was answered 401 and ended after its one fetch, with tokens in the store
C21_Witness ==
    /\ proc[LoginSlot].op \in LoginOps
    /\ proc[LoginSlot].pc = "done"
    /\ proc[LoginSlot].outcome = Err("Http", 401)
    /\ proc[LoginSlot].attempts = 1 /\ proc[LoginSlot].refreshes = 0
    /\ Truthy(getRefreshToken(store))

\* C22: a 403, on the first attempt or on the retry after a refresh, is returned as
\* forbidden with the fixed message and is never retried: the step starts no refresh
\* and no fetch, and the call stays at its one or two attempts
C22_ForbiddenNotRetried ==
    /\ [][\A r \in Slots : \A body \in BodiesFor(proc[r].op, 403) :
             Respond(r, 403, body) =>
                 /\ proc'[r].pc = "settled"
                 /\ proc'[r].outcome = Err("Forbidden", 403)
                 /\ proc'[r].attempts = proc[r].attempts
                 /\ proc'[r].refreshes = proc[r].refreshes
                 /\ \A q \in Slots : proc'[q].pc = "refreshing" => proc[q].pc = "refreshing"]_vars
    /\ [][\A r \in Slots :
             (proc[r].pc = "settled" /\ proc[r].outcome = Err("Forbidden", 403)) =>
                 /\ proc'[r].pc \in {"settled", "done", "idle"}
                 /\ proc'[r].pc # "idle" =>
                        (proc'[r].attempts = proc[r].attempts
                         /\ proc'[r].refreshes = proc[r].refreshes)]_vars

\* the retry after a successful refresh was answered 403 and the call ended forbidden
C22_Witness ==
    \E r \in RequestSlots :
        /\ proc[r].pc = "done" /\ proc[r].outcome = Err("Forbidden", 403)
        /\ proc[r].isRetry /\ proc[r].attempts = 2 /\ proc[r].refreshes = 1

-----------------------------------------------------------------------------
(* Claims about the states of a live-update subscription *)

\* run k has entered Polling: startPolling of run k has created an interval
EnteredPolling(k) == run[k].timer # "none"

\* C23: once a subscription has entered Polling, no push connection is opened for it
\* again: a run whose interval was started has no open EventSource, and no step
\* opens one for it
C23_NoUpgradeToPush ==
    /\ [](\A k \in Runs : EnteredPolling(k) => ~OwnsPush(k))
    /\ [][\A k \in Runs : EnteredPolling(k) => run'[k].es = run[k].es]_vars

\* a run fell back from push to polling and a tick of its interval has called its
\* fetch function
C23_Witness ==
    \E k \in Runs :
        /\ sseUrl /\ k = current /\ run[k].es = "closed"
        /\ OwnsTimer(k) /\ lastUpdate = k

\* C24: with no push endpoint configured, a subscription of the Alerts page never
\* opens an EventSource and, once its initial fetch has settled, has started its one
\* poll interval
C24_NoUrlPolls ==
    (page = "Alerts" /\ ~sseUrl) =>
        \A k \in Runs :
            /\ run[k].es = "none"
            /\ run[k].phase = "started" => EnteredPolling(k)

\* a push event or a tick calls the fetch function of run k in this step
Updated(k) == lastUpdate' = k /\ beat' # beat

\* C28: after the cleanup of a subscription has run, its fetch function is not called
\* again by a push event or by a tick of an interval, whenever that interval was
\* started
C28_NoUpdateAfterCleanup ==
    [][\A k \in Runs : Updated(k) => ~run[k].aborted]_vars

-----------------------------------------------------------------------------
(* tokenManager.isTokenExpired as a function of the stored access token and   *)
(* the clock (api.js, lines 62-75).  Nothing in the program calls it.         *)

\* the clock values and the exp claims tried: they straddle exp - now = 120
ExpiryNows == {0, 1000, 1001}
ExpiryExps == {0, 500} \cup (1100 .. 1130)

\* the values the access token key can hold
ExpiryTokens ==
    {Null, StrUndefined, NoExpTok(1)} \cup {AccessTok(1, e) : e \in ExpiryExps}

\* a caller asks tokenManager.isTokenExpired()
CheckExpiry ==
    /\ expired = "unset"
    /\ expired' = (IF isTokenExpired(store, now) THEN "true" ELSE "false")
    /\ UNCHANGED <<response, thrown, answers, clientVars, liveVars>>

InitExpiry ==
    /\ \E token \in ExpiryTokens : store = [EmptyStore EXCEPT ![ACCESS_KEY] = token]
    /\ now \in ExpiryNows
    /\ proc = [r \in 0..NReq |-> IdleProc]
    /\ issued = 0
    /\ isAuthenticated = FALSE
    /\ booting = TRUE
    /\ pathname = "/"
    /\ navigating = ""
    /\ page = "Alerts" /\ sseUrl = FALSE /\ LiveIdle
    /\ MsgIdle

NextExpiry == CheckExpiry

SpecExpiry == InitExpiry /\ [][NextExpiry]_vars

\* the stored access token is a JWT whose exp claim lies at least 120 s ahead
WellFormedWithTimeLeft ==
    /\ getAccessToken(store).kind = "jwt"
    /\ getAccessToken(store).exp - now >= SkewSeconds

\* C25: the expiry check returns true for an absent token, for a token whose payload
\* cannot be decoded and for one with fewer than 120 s left; it returns false only
\* for a well-formed token with at least 120 s left; it never raises an error
C25_ExpiryCheck ==
    expired # "unset" =>
        /\ expired \in {"true", "false"}
        /\ expired = "false" <=> WellFormedWithTimeLeft

-----------------------------------------------------------------------------
(* Claims about the store and the calls in flight *)

\* a logout has completed on this page: ApiService.logout ran its finally, or the
\* app's logout ran and the page it asked for has not loaded yet
LoggedOut ==
    \/ \E q \in Slots : proc[q].op = "ApiService.logout" /\ proc[q].pc = "done"
    \/ navigating = "/"

NoTokens(st) == ~Truthy(getAccessToken(st)) /\ ~Truthy(getRefreshToken(st))

\* C26: once a logout has completed and emptied the store, the store stays empty
\* until a new login: a refresh of another request that completes later does not
\* put tokens back
C26_LogoutFinal ==
    [][(LoggedOut /\ NoTokens(store) /\ ~(\E r \in Slots : LoginCompletes(r)))
          => NoTokens(store')]_vars

-----------------------------------------------------------------------------
(* Refreshes in flight together against a backend that rotates refresh tokens: *)
(* the backend answers a refresh when the call reaches it, and the answer      *)
(* reaches the browser later, in any order with the answers of other calls     *)

NRotate == 3

\* POST /auth/token/refresh/ answered by a rotating backend: a new pair each time
RotatedBody == [access |-> NextAccess, refresh |-> NextRefresh]

Answered(r) == \E a \in answers : a.slot = r

\* the backend receives the refresh call of r and answers it
BackendAnswers(r) ==
    /\ proc[r].pc = "refreshing"
    /\ ~Answered(r)
    /\ answers' = answers \cup {[slot |-> r, body |-> RotatedBody]}
    /\ issued' = issued + 1
    /\ UNCHANGED <<store, proc, now, isAuthenticated, booting, pathname, navigating,
                   liveVars, response, thrown, expired>>

\* the answer reaches the browser: the fetch of refreshAccessToken resolves
Deliver(r) ==
    \E a \in answers :
        /\ a.slot = r
        /\ proc[r].pc = "refreshing"
        /\ store' = RefreshStore(store, proc[r], 200, a.body, now)
        /\ proc' = [NotePeers(proc, r, RefreshSeen(200, a.body)) EXCEPT ![r] =
                      [proc[r] EXCEPT !.pc = "refreshed",
                                      !.newToken = RefreshReturn(200, a.body),
                                      !.refreshToken = Null,
                                      !.refreshResult = RefreshSeen(200, a.body)]]
        /\ answers' = answers \ {a}
        /\ UNCHANGED <<now, issued, isAuthenticated, booting, pathname, navigating,
                       liveVars, response, thrown, expired>>

InitRotate ==
    /\ page = "Alerts" /\ sseUrl = FALSE /\ LiveIdle
    /\ MsgIdle
    /\ store = BurstStore
    /\ now = AccessLifetime
    /\ issued = 1
    /\ isAuthenticated = TRUE
    /\ booting = FALSE
    /\ pathname = "/dashboard"
    /\ navigating = ""
    /\ proc = [r \in 0..NRotate |->
                 IF r = LoginSlot THEN IdleProc
                 ELSE Enter([IdleProc EXCEPT !.op = "request"], BurstStore, AccessLifetime, FALSE)]

NextRotate ==
    \/ \E r \in Slots : Respond(r, IF proc[r].isRetry THEN 200 ELSE 401, NoData)
    \/ \E r \in Slots : BackendAnswers(r)
    \/ \E r \in Slots : Deliver(r)
    \/ \E r \in Slots : Resume(r)
    \/ \E r \in Slots : Complete(r)

SpecRotate == InitRotate /\ [][NextRotate]_vars

RefreshOutstanding == \E r \in Slots : proc[r].pc = "refreshing"

\* C27: with a rotating backend, once the refreshes in flight have completed, the
\* refresh token in the store is the one the backend issued most recently,
\* whatever the order in which the refreshes were answered and completed
C27_LatestRefreshStored ==
    (issued > 1 /\ ~RefreshOutstanding) => getRefreshToken(store) = RefreshTok(issued)

-----------------------------------------------------------------------------
\* the attempt of call r ends in this step: its fetch settled and make returns or throws
AttemptEnds(r) == proc[r].pc = "sent" /\ proc'[r].pc = "settled"

\* the caller of r takes the result in this step
CallerResumes(r) == proc[r].pc = "settled" /\ proc'[r].pc = "done"

\* C29: the step in which a request attempt ends without entering the refresh path
\* (success, 204, 403, 404, 5xx, a body that fails validation or parsing, a
\* transport failure, a 401 on the post-refresh retry) leaves the store as it is,
\* and so does the caller of a plain request taking the result
C29_AttemptsLeaveStore ==
    [][\A r \in Slots :
          /\ AttemptEnds(r) => store' = store
          /\ (proc[r].op = "request" /\ CallerResumes(r)) => store' = store]_vars

C29_Witness ==
    \E r \in RequestSlots :
        /\ proc[r].op = "request" /\ proc[r].pc = "done"
        /\ proc[r].isRetry /\ proc[r].outcome = Err("Http", 401)
        /\ Truthy(getAccessToken(store)) /\ Truthy(getRefreshToken(store))
        /\ Truthy(store[TIMESTAMP_KEY])

-----------------------------------------------------------------------------
\* what a call saw of a refresh answered with a status that is neither 2xx nor
\* 401/403, or with a 2xx body holding no access token (a JSON body without the
\* field, or a body that is not JSON at all)
AnsweredWithoutToken == {"failed", "noAccess", "threw"}

\* C30: a refresh answered with a non-2xx status other than 401/403, or with a 2xx
\* body that holds no access token, leaves the store unchanged; the original
\* request is not retried and fails with the session-expired error
C30_RefreshFailureKeepsStore ==
    /\ [][\A r \in Slots :
             (proc[r].pc = "refreshing" /\ proc'[r].pc = "refreshed"
              /\ proc'[r].refreshResult \in AnsweredWithoutToken) => store' = store]_vars
    /\ [](\A r \in Slots :
             LET p == proc[r] IN
             p.refreshResult \in AnsweredWithoutToken
                => /\ p.attempts = 1
                   /\ p.pc \in {"refreshed", "settled", "done"}
                   /\ Settled(p) => p.outcome = Err("SessionExpired", 401))

\* the same for the answers refreshAccessToken could parse
C30_ParsedAnswersKeepStore ==
    /\ [][\A r \in Slots :
             (proc[r].pc = "refreshing" /\ proc'[r].pc = "refreshed"
              /\ proc'[r].refreshResult \in {"failed", "noAccess"}) => store' = store]_vars
    /\ [](\A r \in Slots :
             LET p == proc[r] IN
             p.refreshResult \in AnsweredWithoutToken
                => /\ p.attempts = 1
                   /\ p.pc \in {"refreshed", "settled", "done"}
                   /\ Settled(p) => p.outcome = Err("SessionExpired", 401))

====
